---- MODULE Spec2Model ----
(***************************************************************************)
(* A model of close_already: the FastClose wrapper (src/lib.rs), its       *)
(* platform-conditional Drop with the six deferred-close backends, the     *)
(* pass-through trait implementations and the fs functions (src/fs.rs).    *)
(***************************************************************************)
EXTENDS Integers, Sequences, FiniteSets, TLC

\* ------------------------------------------------------------------ bounds
NThreads == 2
NHandles == 2
MaxLen == 2
MaxFsCalls == 2

Threads == 1..NThreads
Handles == 1..NHandles

\* --------------------------------------------------------- configuration
\* The six backend features named in the exactly_one_of! invocation.
Backends ==
    {"backend-async-std", "backend-blocking", "backend-rayon",
     "backend-smol", "backend-threadpool", "backend-tokio"}

Platforms == {"windows", "other"}

\* Handle types that opt into FastCloseable: std::fs::File (not Clone) and a
\* type whose author implemented the trait although the type is Clone (the
\* trait only requires Send).
HandleTypes == {"File", "CloneHandle"}

IsClone(ty) == ty = "CloneHandle"

VARIABLES
    features,      \* the cargo features selected for this build
    platform,      \* cfg(windows) or cfg(not(windows))
    build,         \* "pending", "ok" or "error" (compile_error!)
    runtime,       \* whether dropping threads are inside a tokio runtime
    H,             \* the handle type the wrapper is instantiated with
    holders,       \* holders[h]: who holds a live copy of handle h
    opener,        \* opener[h]: who opened handle h ("none": not opened)
    used,          \* used[h]: h was operated on through its wrapper
    wr,            \* wr[h]: the wrapper made for handle h
    pc,            \* pc[t]: position of thread t
    cur,           \* cur[t]: the handle whose wrapper t is dropping (0: none)
    CLOSER_POOL,   \* the OnceLock<ThreadPool>: "uninit", "building", "ready"
    poolInits,     \* how often the OnceLock's init closure completed
    queue,         \* handles of the closures submitted and not yet run
    released,      \* released[h]: the runs of h's destructor, each with the
                   \* thread whose wrapper drop ran it (0: none) and the way
    fc,            \* a wrapper whose inner handle is used through the traits
    raw,           \* a raw handle that receives the same operations
    resW,          \* result of the last operation on the wrapper
    resR,          \* result of the last operation on the raw handle
    dbg,           \* the last Debug output of the wrapper and of the handle
    sizes,         \* size_of::<H>() and the measured size_of::<FastClose<H>>()
    files,         \* the file system: files[p]
    fsret,         \* what the last fs function call returned
    fscall,        \* the last fs function call: its arguments, whether its
                   \* (destination) path existed, the step the system failed
    todo,          \* todo[t]: locals of the fs function still to be dropped
    ncalls         \* number of fs function calls made so far

vars == <<features, platform, build, runtime, H, holders, opener, used, wr,
          pc, cur, CLOSER_POOL, poolInits, queue, released, fc, raw, resW,
          resR, dbg, sizes, files, fsret, fscall, todo, ncalls>>

cfgVars == <<features, platform, runtime, H>>

ioVars == <<fc, raw, resW, resR, dbg, sizes>>

fsVars == <<files, fsret, fscall, todo, ncalls>>

\* What the wrapper's life-cycle operations never touch.
otherVars == <<cfgVars, ioVars, fsVars>>

\* ------------------------------------------------------------ helpers
RemoveAt(s, i) == SubSeq(s, 1, i - 1) \o SubSeq(s, i + 1, Len(s))

Releases(h) == Len(released[h])

BackendReleases(h) ==
    Cardinality({i \in 1..Len(released[h]) : released[h][i].via = "backend"})

\* One more run of h's destructor.
Release(h, t, via) ==
    [released EXCEPT ![h] = Append(@, [by |-> t, via |-> via])]

NoWrapper == [st |-> "none", origin |-> "none",
              taken |-> 0, into |-> 0, subs |-> 0]

FreeHandles == {h \in Handles : opener[h] = "none"}

Lowest(S) == CHOOSE x \in S : \A y \in S : x <= y

\* ---------------------------------------------------------- build time
\* Variant: only the "more than one" half of the check.
at_most_one_of(fs) == Cardinality(fs \cap Backends) <= 1

\* mutually_exclusive_features::exactly_one_of!: the crate compiles only when
\* exactly one of the listed features is enabled.
exactly_one_of(fs) == Cardinality(fs \cap Backends) = 1

Compile ==
    /\ build = "pending"
    /\ build' = IF exactly_one_of(features) THEN "ok" ELSE "error"
    /\ UNCHANGED <<otherVars, holders, opener, used, wr, pc, cur, CLOSER_POOL,
                   poolInits, queue, released>>

\* Variant: the Windows wrapper holds a plain H, as the stub does.
FieldIsPlainH(p) == FALSE

\* The field of the wrapper struct: ManuallyDrop<H> on Windows, H in the stub.
FieldIsManuallyDrop(p) == p = "windows"

\* ------------------------------------------------------- construction
\* FastClose::_new: the wrapper owns exactly the handle, nothing else.
FastClose__new(orig) ==
    [st |-> "live", origin |-> orig, taken |-> 0, into |-> 0, subs |-> 0]

\* FastCloseable::fast_close (default method).
fast_close == FastClose__new("new")

\* FastClose::new
FastClose_new == fast_close

\* impl From<H> for FastClose<H>
From_from == fast_close

Construct(ctor) ==
    CASE ctor = "new" -> FastClose_new
      [] ctor = "fast_close" -> fast_close
      [] ctor = "from" -> From_from

\* The caller opens a raw handle of the eligible type H.
Open ==
    /\ build = "ok"
    /\ FreeHandles # {}
    /\ LET h == Lowest(FreeHandles) IN
         /\ holders' = [holders EXCEPT ![h] = {"caller"}]
         /\ opener' = [opener EXCEPT ![h] = "user"]
    /\ UNCHANGED <<otherVars, build, used, wr, pc, cur, CLOSER_POOL,
                   poolInits, queue, released>>

\* FastClose::new(h) / h.fast_close() / FastClose::from(h): the handle moves
\* into a new wrapper.
Wrap(ctor, h) ==
    /\ build = "ok"
    /\ holders[h] = {"caller"}
    /\ wr[h].st = "none"
    /\ wr' = [wr EXCEPT ![h] = Construct(ctor)]
    /\ holders' = [holders EXCEPT ![h] = {"wrapper"}]
    /\ UNCHANGED <<otherVars, build, opener, used, pc, cur, CLOSER_POOL,
                   poolInits, queue, released>>

\* Deref / DerefMut / Read / Write / Seek on a live wrapper: only the inner
\* handle changes, the wrapper has no state of its own.
PassThrough(h) ==
    /\ wr[h].st = "live"
    /\ ~used[h]
    /\ used' = [used EXCEPT ![h] = TRUE]
    /\ UNCHANGED <<otherVars, build, holders, opener, wr, pc, cur,
                   CLOSER_POOL, poolInits, queue, released>>

\* derive(Clone): impl<H: Clone + Send + 'static> Clone for FastClose<H>.
\* The clone is a second wrapper, around a clone of the inner handle.
Clone(h) ==
    /\ wr[h].st = "live"
    /\ IsClone(H)
    /\ FreeHandles # {}
    /\ LET h2 == Lowest(FreeHandles) IN
         /\ holders' = [holders EXCEPT ![h2] = {"wrapper"}]
         /\ opener' = [opener EXCEPT ![h2] = opener[h]]
         /\ used' = [used EXCEPT ![h2] = used[h]]
         /\ wr' = [wr EXCEPT ![h2] = FastClose__new("clone")]
    /\ UNCHANGED <<otherVars, build, pc, cur, CLOSER_POOL, poolInits, queue,
                   released>>

\* ------------------------------------------------------------ into_inner
\* Variant: `self` is not wrapped in ManuallyDrop before the handle is read.
into_inner_keeps_drop == FALSE

\* `let wrapped = ManuallyDrop::new(self)`: the wrapper's own destructor is
\* suppressed before the handle is moved out.
into_inner_suppresses_drop == TRUE

\* Variant: the handle is destroyed in place (ManuallyDrop::drop) although it
\* is also returned to the caller.
into_inner_destroys(t, h) ==
    /\ pc[t] = "idle"
    /\ wr[h].st = "live"
    /\ holders' = [holders EXCEPT ![h] = (@ \ {"wrapper"}) \cup {"caller"}]
    /\ wr' = [wr EXCEPT ![h].st = "reclaimed", ![h].into = @ + 1]
    /\ released' = Release(h, 0, "raw")
    /\ UNCHANGED <<otherVars, build, opener, used, pc, cur, CLOSER_POOL,
                   poolInits, queue>>

\* FastClose::into_inner (both implementations): moves the handle out to the
\* caller.  Were the wrapper's destructor not suppressed, Drop::drop would run
\* on it at the end of the method.
into_inner(t, h) ==
    /\ pc[t] = "idle"
    /\ wr[h].st = "live"
    /\ holders' = [holders EXCEPT ![h] = (@ \ {"wrapper"}) \cup {"caller"}]
    /\ IF into_inner_suppresses_drop
         THEN /\ wr' = [wr EXCEPT ![h].st = "reclaimed", ![h].into = @ + 1]
              /\ UNCHANGED <<pc, cur>>
         ELSE /\ wr' = [wr EXCEPT ![h].st = "dropping", ![h].into = @ + 1]
              /\ pc' = [pc EXCEPT ![t] = "drop"]
              /\ cur' = [cur EXCEPT ![t] = h]
    /\ UNCHANGED <<otherVars, build, opener, used, CLOSER_POOL, poolInits,
                   queue, released>>

\* The caller drops a raw handle it owns: H's destructor runs inline.
DropRaw(h) ==
    /\ "caller" \in holders[h]
    /\ holders' = [holders EXCEPT ![h] = @ \ {"caller"}]
    /\ released' = Release(h, 0, "raw")
    /\ UNCHANGED <<otherVars, build, opener, used, wr, pc, cur, CLOSER_POOL,
                   poolInits, queue>>

\* ------------------------------------------------------------------ Drop
\* The owner of a live wrapper releases it on thread t: Drop::drop starts.
DropStart(t, h) ==
    /\ pc[t] = "idle"
    /\ todo[t] = <<>>
    /\ wr[h].st = "live"
    /\ wr' = [wr EXCEPT ![h].st = "dropping"]
    /\ pc' = [pc EXCEPT ![t] = "drop"]
    /\ cur' = [cur EXCEPT ![t] = h]
    /\ UNCHANGED <<otherVars, build, holders, opener, used, CLOSER_POOL,
                   poolInits, queue, released>>

\* get_handle: ManuallyDrop::take(&mut self.0) moves the handle out of the
\* wrapper into the local `handle`, which the submitted closure captures.
get_handle(h) ==
    /\ wr' = [wr EXCEPT ![h].taken = @ + 1, ![h].subs = @ + 1]
    /\ holders' = [holders EXCEPT ![h] = (@ \ {"wrapper"}) \cup {"task"}]

\* Variant: the submitted closure is discarded instead of queued.
execute_discards(q, h) == q

\* The submission primitive of every backend: the closure `drop(handle)` is
\* queued for a worker; nothing is awaited.
execute(q, h) == Append(q, h)

InDropOn(t, b) ==
    /\ build = "ok"
    /\ platform = "windows"
    /\ b \in features
    /\ cur[t] # 0

\* backend-threadpool: CLOSER_POOL.get_or_init(|| ThreadPoolBuilder::new()
\* .build()).  OnceLock lets one caller run the closure and blocks the others
\* until it has completed.
\* Variant: a plain lazily-assigned static; a thread that finds the pool not
\* ready builds one, whether or not another thread is building.
Drop_threadpool_get_or_init_racy(t) ==
    /\ InDropOn(t, "backend-threadpool")
    /\ pc[t] = "drop"
    /\ IF CLOSER_POOL = "ready"
         THEN /\ pc' = [pc EXCEPT ![t] = "take"]
              /\ UNCHANGED CLOSER_POOL
         ELSE /\ pc' = [pc EXCEPT ![t] = "build"]
              /\ CLOSER_POOL' = "building"
    /\ UNCHANGED <<otherVars, build, holders, opener, used, wr, cur,
                   poolInits, queue, released>>

Drop_threadpool_get_or_init(t) ==
    /\ InDropOn(t, "backend-threadpool")
    /\ pc[t] = "drop"
    /\ CLOSER_POOL # "building"
    /\ IF CLOSER_POOL = "ready"
         THEN /\ pc' = [pc EXCEPT ![t] = "take"]
              /\ UNCHANGED CLOSER_POOL
         ELSE /\ pc' = [pc EXCEPT ![t] = "build"]
              /\ CLOSER_POOL' = "building"
    /\ UNCHANGED <<otherVars, build, holders, opener, used, wr, cur,
                   poolInits, queue, released>>

\* The init closure returns the built pool; the OnceLock becomes initialised.
Drop_threadpool_build(t) ==
    /\ InDropOn(t, "backend-threadpool")
    /\ pc[t] = "build"
    /\ CLOSER_POOL' = "ready"
    /\ poolInits' = poolInits + 1
    /\ pc' = [pc EXCEPT ![t] = "take"]
    /\ UNCHANGED <<otherVars, build, holders, opener, used, wr, cur, queue,
                   released>>

\* Variant: the drop joins the pool (waits for the queued work) before it
\* submits.
Drop_threadpool_joins(t) ==
    /\ InDropOn(t, "backend-threadpool")
    /\ pc[t] = "take"
    /\ queue = <<>>
    /\ get_handle(cur[t])
    /\ queue' = execute(queue, cur[t])
    /\ pc' = [pc EXCEPT ![t] = "glue"]
    /\ UNCHANGED <<otherVars, build, opener, used, cur, CLOSER_POOL,
                   poolInits, released>>

\* backend-threadpool: get_handle, then closer_pool.execute(move || drop(h)).
Drop_threadpool(t) ==
    /\ InDropOn(t, "backend-threadpool")
    /\ pc[t] = "take"
    /\ get_handle(cur[t])
    /\ queue' = execute(queue, cur[t])
    /\ pc' = [pc EXCEPT ![t] = "glue"]
    /\ UNCHANGED <<otherVars, build, opener, used, cur, CLOSER_POOL,
                   poolInits, released>>

\* get_handle followed by a spawn that cannot fail.
SpawnDrop(t, b) ==
    /\ InDropOn(t, b)
    /\ pc[t] = "drop"
    /\ get_handle(cur[t])
    /\ queue' = execute(queue, cur[t])
    /\ pc' = [pc EXCEPT ![t] = "glue"]
    /\ UNCHANGED <<otherVars, build, opener, used, cur, CLOSER_POOL,
                   poolInits, released>>

\* backend-blocking: blocking::unblock(move || drop(handle)).detach()
Drop_blocking(t) == SpawnDrop(t, "backend-blocking")

\* backend-rayon: rayon::spawn(move || drop(handle))
Drop_rayon(t) == SpawnDrop(t, "backend-rayon")

\* backend-async-std: async_std::task::spawn(async move { drop(handle) })
Drop_async_std(t) == SpawnDrop(t, "backend-async-std")

\* backend-smol: smol::spawn(async move { drop(handle) }).detach()
Drop_smol(t) == SpawnDrop(t, "backend-smol")

\* backend-tokio: tokio::task::spawn(async move { drop(handle) }).  Outside a
\* tokio runtime the spawn panics in the dropping thread: the handle was
\* already taken, the future that owns it is destroyed (or forgotten) while
\* the panic unwinds, and nothing is queued.
Drop_tokio(t) ==
    \/ /\ runtime
       /\ SpawnDrop(t, "backend-tokio")
    \/ /\ ~runtime
       /\ InDropOn(t, "backend-tokio")
       /\ pc[t] = "drop"
       /\ LET h == cur[t] IN
            /\ wr' = [wr EXCEPT ![h].taken = @ + 1, ![h].st = "unwound"]
            /\ holders' = [holders EXCEPT ![h] = @ \ {"wrapper"}]
            /\ \/ released' = Release(h, t, "unwind")
               \/ UNCHANGED released
       /\ pc' = [pc EXCEPT ![t] = "panicked"]
       /\ cur' = [cur EXCEPT ![t] = 0]
       /\ UNCHANGED <<otherVars, build, opener, used, CLOSER_POOL,
                      poolInits, queue>>

\* Variant: the stub submits the handle like the Windows implementation.
Drop_stub_dispatches(t) ==
    /\ build = "ok"
    /\ platform = "other"
    /\ cur[t] # 0
    /\ pc[t] = "drop"
    /\ get_handle(cur[t])
    /\ queue' = execute(queue, cur[t])
    /\ pc' = [pc EXCEPT ![t] = "glue"]
    /\ UNCHANGED <<otherVars, build, opener, used, cur, CLOSER_POOL,
                   poolInits, released>>

\* The stub's Drop::drop has an empty body, whatever the backend feature.
Drop_stub(t) ==
    /\ build = "ok"
    /\ platform = "other"
    /\ cur[t] # 0
    /\ pc[t] = "drop"
    /\ pc' = [pc EXCEPT ![t] = "glue"]
    /\ UNCHANGED <<otherVars, build, holders, opener, used, wr, cur,
                   CLOSER_POOL, poolInits, queue, released>>

\* After Drop::drop returns the compiler drops the struct's field: a
\* ManuallyDrop<H> field does nothing, an H field runs H's destructor inline.
DropGlue(t) ==
    /\ build = "ok"
    /\ pc[t] = "glue"
    /\ LET h == cur[t] IN
         IF FieldIsManuallyDrop(platform)
           THEN /\ wr' = [wr EXCEPT ![h].st = "dropped"]
                /\ UNCHANGED <<holders, released>>
           ELSE /\ wr' = [wr EXCEPT ![h].st = "dropped", ![h].taken = @ + 1]
                /\ holders' = [holders EXCEPT ![h] = @ \ {"wrapper"}]
                /\ released' = Release(h, t, "glue")
    /\ pc' = [pc EXCEPT ![t] = "idle"]
    /\ cur' = [cur EXCEPT ![t] = 0]
    /\ UNCHANGED <<otherVars, build, opener, used, CLOSER_POOL, poolInits,
                   queue>>

\* A backend worker runs one queued closure: `drop(handle)`.
Worker(i) ==
    /\ i \in 1..Len(queue)
    /\ released' = Release(queue[i], 0, "backend")
    /\ holders' = [holders EXCEPT ![queue[i]] = @ \ {"task"}]
    /\ queue' = RemoveAt(queue, i)
    /\ UNCHANGED <<otherVars, build, opener, used, wr, pc, cur, CLOSER_POOL,
                   poolInits>>

\* ==================================================================
\* The file system seen by the fs functions
\* ==================================================================
Paths == {"p", "q"}

NoFile == [exists |-> FALSE, data |-> <<>>, perm |-> "none"]

NoRet == [fn |-> "none", ok |-> TRUE, val |-> <<>>, n |-> 0, err |-> "none"]

NoCall == [path |-> "none", to |-> "none", contents |-> <<>>,
           existed |-> FALSE, fail |-> "none"]

\* ==================================================================
\* Pass-through trait implementations (specification SpecIO)
\* ==================================================================
\* Byte 0 stands for an ASCII byte, byte 1 for a byte that is not valid UTF-8.
Bytes == {0, 1}

BSeqs == UNION {[1..n -> Bytes] : n \in 0..MaxLen}

Min(a, b) == IF a < b THEN a ELSE b

\* io::Result of an operation: n is the returned number (count or position),
\* buf the caller's buffer after the call, err the io::ErrorKind.
Ok(n, buf) == [ok |-> TRUE, n |-> n, buf |-> buf, err |-> "none"]

Err(e, buf) == [ok |-> FALSE, n |-> 0, buf |-> buf, err |-> e]

NoRes == [ok |-> TRUE, n |-> 0, buf |-> <<>>, err |-> "none"]

NoH == [data |-> <<>>, pos |-> 0, key |-> 0]

NoFastClose == [inner |-> NoH]

NoDbg == [pretty |-> FALSE, wrapper |-> <<>>, inner |-> <<>>]

NoSizes == [H |-> 0, FastClose |-> 0, measured |-> FALSE]

\* The bytes between the handle's position and its end.
Rest(h) == SubSeq(h.data, h.pos + 1, Len(h.data))

Pad(n) == [i \in 1..n |-> 0]

\* The data after writing bytes at position pos (a gap is zero-filled).
Overwrite(data, pos, bytes) ==
    LET base == IF pos > Len(data) THEN data \o Pad(pos - Len(data))
                ELSE data IN
      SubSeq(base, 1, pos) \o bytes
        \o SubSeq(base, pos + Len(bytes) + 1, Len(base))

IsUtf8(bs) == \A i \in 1..Len(bs) : bs[i] = 0

\* ---- the inner handle H: the io::Read / io::Write / io::Seek contracts the
\* ---- wrapper forwards to.  `fail` is an I/O error of the operating system.
H_read(h, n, fail) ==
    IF fail THEN [h |-> h, res |-> Err("Other", <<>>)]
    ELSE LET got == SubSeq(Rest(h), 1, Min(n, Len(Rest(h)))) IN
           [h |-> [h EXCEPT !.pos = @ + Len(got)], res |-> Ok(Len(got), got)]

H_read_vectored(h, ns, fail) == H_read(h, ns[1] + ns[2], fail)

H_read_to_end(h, buf, fail) ==
    IF fail THEN [h |-> h, res |-> Err("Other", buf)]
    ELSE [h |-> [h EXCEPT !.pos = @ + Len(Rest(h))],
          res |-> Ok(Len(Rest(h)), buf \o Rest(h))]

\* Variant: the bytes are returned as text whether or not they are valid.
H_read_to_string_lossy(h, buf, fail) ==
    IF fail THEN [h |-> h, res |-> Err("Other", buf)]
    ELSE [h |-> [h EXCEPT !.pos = @ + Len(Rest(h))],
          res |-> Ok(Len(Rest(h)), buf \o Rest(h))]

H_read_to_string(h, buf, fail) ==
    IF fail THEN [h |-> h, res |-> Err("Other", buf)]
    ELSE IF ~IsUtf8(Rest(h))
      THEN [h |-> [h EXCEPT !.pos = @ + Len(Rest(h))],
            res |-> Err("InvalidData", buf)]
      ELSE [h |-> [h EXCEPT !.pos = @ + Len(Rest(h))],
            res |-> Ok(Len(Rest(h)), buf \o Rest(h))]

H_read_exact(h, n, fail) ==
    IF fail THEN [h |-> h, res |-> Err("Other", <<>>)]
    ELSE IF Len(Rest(h)) < n
      THEN [h |-> [h EXCEPT !.pos = @ + Len(Rest(h))],
            res |-> Err("UnexpectedEof", Rest(h))]
      ELSE [h |-> [h EXCEPT !.pos = @ + n],
            res |-> Ok(0, SubSeq(Rest(h), 1, n))]

H_write(h, bytes, fail) ==
    IF fail THEN [h |-> h, res |-> Err("Other", <<>>)]
    ELSE [h |-> [h EXCEPT !.data = Overwrite(h.data, h.pos, bytes),
                          !.pos = @ + Len(bytes)],
          res |-> Ok(Len(bytes), <<>>)]

H_write_vectored(h, bufs, fail) == H_write(h, bufs[1] \o bufs[2], fail)

H_flush(h, fail) ==
    IF fail THEN [h |-> h, res |-> Err("Other", <<>>)]
    ELSE [h |-> h, res |-> Ok(0, <<>>)]

H_write_all(h, bytes, fail) ==
    LET r == H_write(h, bytes, fail) IN
      [h |-> r.h, res |-> IF r.res.ok THEN Ok(0, <<>>) ELSE r.res]

\* fmt::Arguments rendered to bytes: the text of the pieces, concatenated.
RECURSIVE Render(_)
Render(args) ==
    IF args = <<>> THEN <<>> ELSE args[1] \o Render(Tail(args))

H_write_fmt(h, args, fail) == H_write_all(h, Render(args), fail)

SeekTarget(h, sf) ==
    CASE sf[1] = "Start" -> sf[2]
      [] sf[1] = "Current" -> h.pos + sf[2]
      [] sf[1] = "End" -> Len(h.data) + sf[2]

H_seek(h, sf, fail) ==
    IF fail THEN [h |-> h, res |-> Err("Other", <<>>)]
    ELSE IF SeekTarget(h, sf) < 0
      THEN [h |-> h, res |-> Err("InvalidInput", <<>>)]
      ELSE [h |-> [h EXCEPT !.pos = SeekTarget(h, sf)],
            res |-> Ok(SeekTarget(h, sf), <<>>)]

H_rewind(h, fail) ==
    LET r == H_seek(h, <<"Start", 0>>, fail) IN
      [h |-> r.h, res |-> IF r.res.ok THEN Ok(0, <<>>) ELSE r.res]

H_stream_position(h, fail) == H_seek(h, <<"Current", 0>>, fail)

H_eq(a, b) == a.key = b.key

H_partial_cmp(a, b) ==
    IF a.key < b.key THEN "Less"
    ELSE IF a.key = b.key THEN "Equal" ELSE "Greater"

\* ---- the wrapper's implementations: each forwards to self.0
\* The wrapper after a forwarded call, with the call's result.
Forward(r) == [self |-> [inner |-> r.h], res |-> r.res]

Deref_deref(w) == w.inner

FastClose_read(w, n, fail) == Forward(H_read(w.inner, n, fail))

FastClose_read_vectored(w, ns, fail) ==
    Forward(H_read_vectored(w.inner, ns, fail))

FastClose_read_to_end(w, buf, fail) ==
    Forward(H_read_to_end(w.inner, buf, fail))

FastClose_read_to_string(w, buf, fail) ==
    Forward(H_read_to_string(w.inner, buf, fail))

FastClose_read_exact(w, n, fail) == Forward(H_read_exact(w.inner, n, fail))

FastClose_write(w, bytes, fail) == Forward(H_write(w.inner, bytes, fail))

FastClose_write_vectored(w, bufs, fail) ==
    Forward(H_write_vectored(w.inner, bufs, fail))

\* Variant: flush reports success whatever the inner handle returned.
FastClose_flush_swallows(w, fail) ==
    [self |-> w, res |-> Ok(0, <<>>)]

FastClose_flush(w, fail) == Forward(H_flush(w.inner, fail))

FastClose_write_all(w, bytes, fail) ==
    Forward(H_write_all(w.inner, bytes, fail))

FastClose_write_fmt(w, args, fail) ==
    Forward(H_write_fmt(w.inner, args, fail))

FastClose_seek(w, sf, fail) == Forward(H_seek(w.inner, sf, fail))

FastClose_rewind(w, fail) == Forward(H_rewind(w.inner, fail))

FastClose_stream_position(w, fail) ==
    Forward(H_stream_position(w.inner, fail))

\* impl PartialEq<H>: self.deref() == other
FastClose_eq(w, other) == H_eq(Deref_deref(w), other)

\* impl PartialOrd<H>: self.deref().partial_cmp(other)
FastClose_partial_cmp(w, other) == H_partial_cmp(Deref_deref(w), other)

\* ---- one step: the same call on the wrapper and on the raw handle
IOStep(w, r) ==
    /\ build = "ok"
    /\ Len(r.h.data) <= MaxLen /\ r.h.pos <= MaxLen
    /\ fc' = w.self
    /\ resW' = w.res
    /\ raw' = r.h
    /\ resR' = r.res
    /\ UNCHANGED <<cfgVars, fsVars, build, holders, opener, used, wr, pc, cur,
                   CLOSER_POOL, poolInits, queue, released, dbg, sizes>>

Cmp(b) == [ok |-> TRUE, n |-> 0, buf |-> <<>>, err |-> b]

IO_deref ==
    IOStep([self |-> fc,
            res |-> Ok(Deref_deref(fc).pos, Deref_deref(fc).data)],
           [h |-> raw, res |-> Ok(raw.pos, raw.data)])

IO_read(n, fail) == IOStep(FastClose_read(fc, n, fail), H_read(raw, n, fail))

IO_read_vectored(ns, fail) ==
    IOStep(FastClose_read_vectored(fc, ns, fail),
           H_read_vectored(raw, ns, fail))

IO_read_to_end(buf, fail) ==
    IOStep(FastClose_read_to_end(fc, buf, fail),
           H_read_to_end(raw, buf, fail))

IO_read_to_string(buf, fail) ==
    IOStep(FastClose_read_to_string(fc, buf, fail),
           H_read_to_string(raw, buf, fail))

IO_read_exact(n, fail) ==
    IOStep(FastClose_read_exact(fc, n, fail), H_read_exact(raw, n, fail))

IO_write(bytes, fail) ==
    IOStep(FastClose_write(fc, bytes, fail), H_write(raw, bytes, fail))

IO_write_vectored(bufs, fail) ==
    IOStep(FastClose_write_vectored(fc, bufs, fail),
           H_write_vectored(raw, bufs, fail))

IO_flush(fail) == IOStep(FastClose_flush(fc, fail), H_flush(raw, fail))

IO_write_all(bytes, fail) ==
    IOStep(FastClose_write_all(fc, bytes, fail),
           H_write_all(raw, bytes, fail))

IO_write_fmt(args, fail) ==
    IOStep(FastClose_write_fmt(fc, args, fail),
           H_write_fmt(raw, args, fail))

IO_seek(sf, fail) == IOStep(FastClose_seek(fc, sf, fail), H_seek(raw, sf, fail))

IO_rewind(fail) == IOStep(FastClose_rewind(fc, fail), H_rewind(raw, fail))

IO_stream_position(fail) ==
    IOStep(FastClose_stream_position(fc, fail), H_stream_position(raw, fail))

IO_eq(other) ==
    IOStep([self |-> fc,
            res |-> Cmp(IF FastClose_eq(fc, other) THEN "eq" ELSE "ne")],
           [h |-> raw, res |-> Cmp(IF H_eq(raw, other) THEN "eq" ELSE "ne")])

IO_partial_cmp(other) ==
    IOStep([self |-> fc, res |-> Cmp(FastClose_partial_cmp(fc, other))],
           [h |-> raw, res |-> Cmp(H_partial_cmp(raw, other))])

SeekFroms ==
    {<<k, d>> : k \in {"Start", "Current", "End"}, d \in -1..MaxLen}

\* Format arguments: up to two pieces of ASCII text.
FmtArgs ==
    {<<>>} \cup {<<x>> : x \in {<<>>, <<0>>, <<0, 0>>}}
           \cup {<<x, y>> : x, y \in {<<>>, <<0>>}}

Others == {[data |-> <<>>, pos |-> 0, key |-> k] : k \in 0..2}

\* A wrapper around a handle with some content, and an identical raw handle.
InitIO ==
    /\ features = {"backend-threadpool"}
    /\ platform \in Platforms
    /\ runtime = FALSE
    /\ H = "File"
    /\ build = "ok"
    /\ holders = [h \in Handles |-> {}]
    /\ opener = [h \in Handles |-> "none"]
    /\ used = [h \in Handles |-> FALSE]
    /\ wr = [h \in Handles |-> NoWrapper]
    /\ pc = [t \in Threads |-> "idle"]
    /\ cur = [t \in Threads |-> 0]
    /\ CLOSER_POOL = "uninit"
    /\ poolInits = 0
    /\ queue = <<>>
    /\ released = [h \in Handles |-> <<>>]
    /\ \E d \in BSeqs :
         /\ raw = [data |-> d, pos |-> 0, key |-> 1]
         /\ fc = [inner |-> [data |-> d, pos |-> 0, key |-> 1]]
    /\ resW = NoRes
    /\ resR = NoRes
    /\ dbg = NoDbg
    /\ sizes = NoSizes
    /\ files = [p \in Paths |-> NoFile]
    /\ fsret = NoRet
    /\ fscall = NoCall
    /\ todo = [t \in Threads |-> <<>>]
    /\ ncalls = 0

NextIO ==
    \/ IO_deref
    \/ \E n \in 0..MaxLen, f \in BOOLEAN : IO_read(n, f)
    \/ \E n1, n2 \in 0..1, f \in BOOLEAN : IO_read_vectored(<<n1, n2>>, f)
    \/ \E b \in {<<>>, <<0>>}, f \in BOOLEAN : IO_read_to_end(b, f)
    \/ \E b \in {<<>>, <<0>>}, f \in BOOLEAN : IO_read_to_string(b, f)
    \/ \E n \in 0..MaxLen, f \in BOOLEAN : IO_read_exact(n, f)
    \/ \E b \in BSeqs, f \in BOOLEAN : IO_write(b, f)
    \/ \E b1, b2 \in {<<>>, <<0>>, <<1>>}, f \in BOOLEAN :
         IO_write_vectored(<<b1, b2>>, f)
    \/ \E f \in BOOLEAN : IO_flush(f)
    \/ \E b \in BSeqs, f \in BOOLEAN : IO_write_all(b, f)
    \/ \E a \in FmtArgs, f \in BOOLEAN : IO_write_fmt(a, f)
    \/ \E sf \in SeekFroms, f \in BOOLEAN : IO_seek(sf, f)
    \/ \E f \in BOOLEAN : IO_rewind(f)
    \/ \E f \in BOOLEAN : IO_stream_position(f)
    \/ \E o \in Others : IO_eq(o)
    \/ \E o \in Others : IO_partial_cmp(o)

SpecIO == InitIO /\ [][NextIO]_vars

\* ==================================================================
\* Debug output and layout of the wrapper (specification SpecRepr)
\* ==================================================================
MaxSize == 2

\* Formatter output is a sequence of tokens; these two stand for the line
\* break and for the four spaces a pretty-printing formatter indents with.
Newline == "<newline>"

Indent == "<indent>"

\* core::fmt's PadAdapter, which the pretty forms write their fields through:
\* every line of what is written starts with the indentation.
RECURSIVE PadAdapter(_, _)
PadAdapter(toks, on_newline) ==
    IF toks = <<>> THEN <<>>
    ELSE (IF on_newline THEN <<Indent>> ELSE <<>>)
           \o <<Head(toks)>>
           \o PadAdapter(Tail(toks), Head(toks) = Newline)

\* f.debug_tuple(name).field(value).finish()
debug_tuple(name, value, pretty) ==
    IF pretty
      THEN <<name, "(", Newline>>
             \o PadAdapter(value \o <<",", Newline>>, TRUE) \o <<")">>
      ELSE <<name, "(">> \o value \o <<")">>

\* f.debug_struct(name).field(field, value).finish()
debug_struct(name, field, value, pretty) ==
    IF pretty
      THEN <<name, " ", "{", Newline>>
             \o PadAdapter(<<field, ":", " ">> \o value \o <<",", Newline>>,
                           TRUE)
             \o <<"}">>
      ELSE <<name, " ", "{", " ", field, ":", " ">> \o value \o <<" ", "}">>

\* The inner handle's own Debug output: its type name and its content.
H_fmt(ty, h, pretty) ==
    debug_struct(ty, "handle", <<ToString(h.key)>>, pretty)

\* ManuallyDrop's Debug output (derived in core): the wrapped value as the
\* field `value`.
ManuallyDrop_fmt(value, pretty) ==
    debug_struct("ManuallyDrop", "value", value, pretty)

\* The Debug output of the wrapper's field self.0.
Field_fmt(p, ty, w, pretty) ==
    IF FieldIsManuallyDrop(p)
      THEN ManuallyDrop_fmt(H_fmt(ty, w.inner, pretty), pretty)
      ELSE H_fmt(ty, w.inner, pretty)

\* What derive(Debug) prints: the tuple struct with its field.  It is the
\* stub's implementation; on Windows it is a variant of the hand-written one.
FastClose_fmt_derived(p, ty, w, pretty) ==
    debug_tuple("FastClose", Field_fmt(p, ty, w, pretty), pretty)

\* impl fmt::Debug for FastClose: on Windows
\* f.debug_tuple("FastClose").field(&self.0.deref()).finish(), the handle
\* behind the ManuallyDrop; in the stub the derived implementation.
FastClose_fmt(p, ty, w, pretty) ==
    IF p = "windows"
      THEN debug_tuple("FastClose", H_fmt(ty, w.inner, pretty), pretty)
      ELSE FastClose_fmt_derived(p, ty, w, pretty)

\* format!("{file:?}") / format!("{file:#?}") of the wrapper, next to the same
\* format of the raw handle.
Debug_fmt(pretty) ==
    /\ build = "ok"
    /\ dbg' = [pretty |-> pretty,
               wrapper |-> FastClose_fmt(platform, H, fc, pretty),
               inner |-> H_fmt(H, raw, pretty)]
    /\ UNCHANGED <<cfgVars, fsVars, build, holders, opener, used, wr, pc, cur,
                   CLOSER_POOL, poolInits, queue, released, fc, raw, resW,
                   resR, sizes>>

\* ManuallyDrop<T> is repr(transparent): it has the size of T.
size_of_ManuallyDrop(n) == n

\* The size of the wrapper's only field, for a handle type of size n.
size_of_field(p, n) ==
    IF FieldIsManuallyDrop(p) THEN size_of_ManuallyDrop(n) ELSE n

\* Variant: the struct carries a one-byte flag next to the handle.
size_of_FastClose_flagged(p, n) == size_of_field(p, n) + 1

\* FastClose is repr(transparent) over its single field: it has that field's
\* size.
size_of_FastClose(p, n) == size_of_field(p, n)

\* size_of::<FastClose<H>>() is evaluated.
Measure ==
    /\ build = "ok"
    /\ sizes' = [sizes EXCEPT
                   !.FastClose = size_of_FastClose(platform, sizes.H),
                   !.measured = TRUE]
    /\ UNCHANGED <<cfgVars, fsVars, build, holders, opener, used, wr, pc, cur,
                   CLOSER_POOL, poolInits, queue, released, fc, raw, resW,
                   resR, dbg>>

\* A wrapper around a handle of either eligible type, of any size from a
\* zero-sized type upwards, on either platform.
InitRepr ==
    /\ features = {"backend-threadpool"}
    /\ platform \in Platforms
    /\ runtime = FALSE
    /\ H \in HandleTypes
    /\ build = "ok"
    /\ holders = [h \in Handles |-> {}]
    /\ opener = [h \in Handles |-> "none"]
    /\ used = [h \in Handles |-> FALSE]
    /\ wr = [h \in Handles |-> NoWrapper]
    /\ pc = [t \in Threads |-> "idle"]
    /\ cur = [t \in Threads |-> 0]
    /\ CLOSER_POOL = "uninit"
    /\ poolInits = 0
    /\ queue = <<>>
    /\ released = [h \in Handles |-> <<>>]
    /\ \E k \in 0..2 :
         /\ raw = [data |-> <<>>, pos |-> 0, key |-> k]
         /\ fc = [inner |-> [data |-> <<>>, pos |-> 0, key |-> k]]
    /\ resW = NoRes
    /\ resR = NoRes
    /\ dbg = NoDbg
    /\ \E n \in 0..MaxSize :
         sizes = [H |-> n, FastClose |-> 0, measured |-> FALSE]
    /\ files = [p \in Paths |-> NoFile]
    /\ fsret = NoRet
    /\ fscall = NoCall
    /\ todo = [t \in Threads |-> <<>>]
    /\ ncalls = 0

NextRepr ==
    \/ \E pretty \in BOOLEAN : Debug_fmt(pretty)
    \/ Measure
    \/ \E b \in BSeqs, f \in BOOLEAN : IO_write(b, f)
    \/ \E sf \in SeekFroms, f \in BOOLEAN : IO_seek(sf, f)

SpecRepr == InitRepr /\ [][NextRepr]_vars

\* -------------------------------------------------------- specification
InitWith(ty) ==
    /\ features \in SUBSET Backends
    /\ platform \in Platforms
    /\ runtime \in IF "backend-tokio" \in features THEN BOOLEAN ELSE {FALSE}
    /\ H = ty
    /\ build = "pending"
    /\ holders = [h \in Handles |-> {}]
    /\ opener = [h \in Handles |-> "none"]
    /\ used = [h \in Handles |-> FALSE]
    /\ wr = [h \in Handles |-> NoWrapper]
    /\ pc = [t \in Threads |-> "idle"]
    /\ cur = [t \in Threads |-> 0]
    /\ CLOSER_POOL = "uninit"
    /\ poolInits = 0
    /\ queue = <<>>
    /\ released = [h \in Handles |-> <<>>]
    /\ fc = NoFastClose
    /\ raw = NoH
    /\ resW = NoRes
    /\ resR = NoRes
    /\ dbg = NoDbg
    /\ sizes = NoSizes
    /\ files = [p \in Paths |-> NoFile]
    /\ fsret = NoRet
    /\ fscall = NoCall
    /\ todo = [t \in Threads |-> <<>>]
    /\ ncalls = 0

\* FastClose around std::fs::File, which is not Clone.
Init == InitWith("File")

\* FastClose around an eligible handle type that is Clone.
InitClone == InitWith("CloneHandle")

DropStep(t) ==
    \/ Drop_threadpool_get_or_init(t)
    \/ Drop_threadpool_build(t)
    \/ Drop_threadpool(t)
    \/ Drop_blocking(t)
    \/ Drop_rayon(t)
    \/ Drop_async_std(t)
    \/ Drop_smol(t)
    \/ Drop_tokio(t)
    \/ Drop_stub(t)
    \/ DropGlue(t)

Next ==
    \/ Compile
    \/ Open
    \/ \E c \in {"new", "fast_close", "from"}, h \in Handles : Wrap(c, h)
    \/ \E h \in Handles : PassThrough(h)
    \/ \E t \in Threads, h \in Handles : into_inner(t, h)
    \/ \E h \in Handles : DropRaw(h)
    \/ \E t \in Threads, h \in Handles : DropStart(t, h)
    \/ \E t \in Threads : DropStep(t)
    \/ \E i \in 1..NHandles : Worker(i)

Spec == Init /\ [][Next]_vars

NextClone ==
    \/ Next
    \/ \E h \in Handles : Clone(h)

SpecClone == InitClone /\ [][NextClone]_vars

\* The backend's workers keep running: a queued closure is eventually run.
FairSpec == Spec /\ \A i \in 1..NHandles : WF_vars(Worker(i))

\* ==================================================================
\* The fs functions (specification SpecFs)
\* ==================================================================
FsFunctions == {"copy", "read", "read_to_string", "write"}

Perms == {"rw", "ro"}

\* File contents: empty, valid text, and longer contents that are not valid
\* text.
FsData == {<<>>, <<0>>, <<0, 1>>}

FileStates ==
    {NoFile} \cup {[exists |-> TRUE, data |-> d, perm |-> pm] :
                     d \in FsData, pm \in Perms}

\* The record of a call: its path arguments and contents, whether the file
\* it creates or reads existed before, and the step at which the operating
\* system fails during it ("none": at no step).
Call(path, to, contents, existed, fail) ==
    [path |-> path, to |-> to, contents |-> contents, existed |-> existed,
     fail |-> fail]

Ret(fn, res) ==
    [fn |-> fn, ok |-> res.ok, val |-> res.buf, n |-> res.n, err |-> res.err]

FsReady(t, nh) ==
    /\ build = "ok"
    /\ pc[t] = "idle"
    /\ todo[t] = <<>>
    /\ ncalls < MaxFsCalls
    /\ Cardinality(FreeHandles) >= nh

\* A file opened at its beginning.
Opened(f) == [data |-> f.data, pos |-> 0, key |-> 0]

\* Variant: the file is opened for writing without being truncated.
Untruncated(f) ==
    [exists |-> TRUE, data |-> f.data,
     perm |-> IF f.exists THEN f.perm ELSE "rw"]

\* File::create / OpenOptions write+create+truncate: the file afterwards.
Truncated(f) ==
    [exists |-> TRUE, data |-> <<>>,
     perm |-> IF f.exists THEN f.perm ELSE "rw"]

CanWrite(f) == ~f.exists \/ f.perm = "rw"

\* fs::read: File::open(path)?.fast_close(), the size hint from metadata (a
\* failure only loses the hint), read_to_end through the wrapper.
fs_read(t, path, fail) ==
    /\ FsReady(t, 1)
    /\ ncalls' = ncalls + 1
    /\ fscall' = Call(path, "none", <<>>, files[path].exists, fail)
    /\ IF ~files[path].exists
         THEN /\ fsret' = Ret("read", Err("NotFound", <<>>))
              /\ UNCHANGED <<holders, opener, wr, todo>>
         ELSE LET h == Lowest(FreeHandles)
                  file == [inner |-> Opened(files[path])]
                  r == FastClose_read_to_end(file, <<>>, fail = "read") IN
                /\ holders' = [holders EXCEPT ![h] = {"wrapper"}]
                /\ opener' = [opener EXCEPT ![h] = "read"]
                /\ wr' = [wr EXCEPT ![h] = fast_close]
                /\ fsret' = Ret("read", r.res)
                /\ todo' = [todo EXCEPT ![t] = <<h>>]
    /\ UNCHANGED <<cfgVars, ioVars, build, used, pc, cur, CLOSER_POOL,
                   poolInits, queue, released, files>>

\* fs::read_to_string: File::open(path)? without fast_close, read_to_string on
\* the raw File; the File is dropped inline when the function returns.
fs_read_to_string(t, path, fail) ==
    /\ FsReady(t, 1)
    /\ ncalls' = ncalls + 1
    /\ fscall' = Call(path, "none", <<>>, files[path].exists, fail)
    /\ IF ~files[path].exists
         THEN /\ fsret' = Ret("read_to_string", Err("NotFound", <<>>))
              /\ UNCHANGED <<holders, opener, released>>
         ELSE LET h == Lowest(FreeHandles)
                  r == H_read_to_string(Opened(files[path]), <<>>,
                                        fail = "read") IN
                /\ holders' = [holders EXCEPT ![h] = {}]
                /\ opener' = [opener EXCEPT ![h] = "read_to_string"]
                /\ fsret' = Ret("read_to_string", r.res)
                /\ released' = Release(h, 0, "raw")
    /\ UNCHANGED <<cfgVars, ioVars, build, used, wr, pc, cur, CLOSER_POOL,
                   poolInits, queue, files, todo>>

\* fs::write: File::create(path)?.fast_close().write_all(contents); the
\* temporary wrapper is dropped at the end of the statement.
fs_write(t, path, contents, fail) ==
    /\ FsReady(t, 1)
    /\ ncalls' = ncalls + 1
    /\ fscall' = Call(path, "none", contents, files[path].exists, fail)
    /\ IF ~CanWrite(files[path])
         THEN /\ fsret' = Ret("write", Err("PermissionDenied", <<>>))
              /\ UNCHANGED <<holders, opener, wr, todo, files>>
         ELSE LET h == Lowest(FreeHandles)
                  created == Truncated(files[path])
                  file == [inner |-> Opened(created)]
                  r == FastClose_write_all(file, contents, fail = "write") IN
                /\ holders' = [holders EXCEPT ![h] = {"wrapper"}]
                /\ opener' = [opener EXCEPT ![h] = "write"]
                /\ wr' = [wr EXCEPT ![h] = fast_close]
                /\ files' = [files EXCEPT
                               ![path] = [created EXCEPT
                                            !.data = r.self.inner.data]]
                /\ fsret' = Ret("write", r.res)
                /\ todo' = [todo EXCEPT ![t] = <<h>>]
    /\ UNCHANGED <<cfgVars, ioVars, build, used, pc, cur, CLOSER_POOL,
                   poolInits, queue, released>>

\* Variant: the permissions are left as they are.
set_permissions_skipped(fsys, path, perm) == fsys

\* std::fs::set_permissions(to_path, permissions)
set_permissions(fsys, path, perm) == [fsys EXCEPT ![path].perm = perm]

\* io::copy(&mut from, &mut to): every byte of `from` is written to `to`.
io_copy(fsys, from, to) == [fsys EXCEPT ![to].data = fsys[from].data]

\* Variant: the permissions of `to` are set as soon as it is open, before the
\* bytes are streamed.
fs_copy_permissions_first(t, from, to, fail) ==
    /\ FsReady(t, 2)
    /\ ncalls' = ncalls + 1
    /\ fscall' = Call(from, to, <<>>, files[to].exists, fail)
    /\ IF ~files[from].exists
         THEN /\ fsret' = Ret("copy", Err("NotFound", <<>>))
              /\ UNCHANGED <<holders, opener, wr, todo, files>>
         ELSE LET h1 == Lowest(FreeHandles)
                  h2 == Lowest(FreeHandles \ {h1}) IN
           IF ~CanWrite(files[to])
             THEN /\ holders' = [holders EXCEPT ![h1] = {"wrapper"}]
                  /\ opener' = [opener EXCEPT ![h1] = "copy"]
                  /\ wr' = [wr EXCEPT ![h1] = fast_close]
                  /\ fsret' = Ret("copy", Err("PermissionDenied", <<>>))
                  /\ todo' = [todo EXCEPT ![t] = <<h1>>]
                  /\ UNCHANGED files
             ELSE LET opened == [files EXCEPT ![to] = Truncated(files[to])]
                      src == opened[from].data
                      copied == io_copy(opened, from, to)
                      done == set_permissions(copied, to, copied[from].perm)
                  IN
                    /\ holders' = [holders EXCEPT ![h1] = {"wrapper"},
                                                  ![h2] = {"wrapper"}]
                    /\ opener' = [opener EXCEPT ![h1] = "copy",
                                                ![h2] = "copy"]
                    /\ wr' = [wr EXCEPT ![h1] = fast_close,
                                        ![h2] = fast_close]
                    /\ todo' = [todo EXCEPT ![t] = <<h2, h1>>]
                    /\ CASE fail = "copy" ->
                              /\ files' = set_permissions(opened, to,
                                                          opened[from].perm)
                              /\ fsret' = Ret("copy", Err("Other", <<>>))
                         [] fail \in {"metadata", "set_permissions"} ->
                              /\ files' = copied
                              /\ fsret' = Ret("copy", Err("Other", <<>>))
                         [] OTHER ->
                              /\ files' = done
                              /\ fsret' = Ret("copy", Ok(Len(src), <<>>))
    /\ UNCHANGED <<cfgVars, ioVars, build, used, pc, cur, CLOSER_POOL,
                   poolInits, queue, released>>

\* fs::copy: open `from`, open-create-truncate `to`, io::copy, then
\* set_permissions(to, from.metadata()?.permissions()).  Each `?` returns the
\* first error; the locals are dropped in reverse order of declaration.
fs_copy(t, from, to, fail) ==
    /\ FsReady(t, 2)
    /\ ncalls' = ncalls + 1
    /\ fscall' = Call(from, to, <<>>, files[to].exists, fail)
    /\ IF ~files[from].exists
         THEN /\ fsret' = Ret("copy", Err("NotFound", <<>>))
              /\ UNCHANGED <<holders, opener, wr, todo, files>>
         ELSE LET h1 == Lowest(FreeHandles)
                  h2 == Lowest(FreeHandles \ {h1}) IN
           IF ~CanWrite(files[to])
             THEN /\ holders' = [holders EXCEPT ![h1] = {"wrapper"}]
                  /\ opener' = [opener EXCEPT ![h1] = "copy"]
                  /\ wr' = [wr EXCEPT ![h1] = fast_close]
                  /\ fsret' = Ret("copy", Err("PermissionDenied", <<>>))
                  /\ todo' = [todo EXCEPT ![t] = <<h1>>]
                  /\ UNCHANGED files
             ELSE LET opened == [files EXCEPT ![to] = Truncated(files[to])]
                      src == opened[from].data
                      copied == io_copy(opened, from, to)
                      done == set_permissions(copied, to, copied[from].perm)
                  IN
                    /\ holders' = [holders EXCEPT ![h1] = {"wrapper"},
                                                  ![h2] = {"wrapper"}]
                    /\ opener' = [opener EXCEPT ![h1] = "copy",
                                                ![h2] = "copy"]
                    /\ wr' = [wr EXCEPT ![h1] = fast_close,
                                        ![h2] = fast_close]
                    /\ todo' = [todo EXCEPT ![t] = <<h2, h1>>]
                    /\ CASE fail = "copy" ->
                              /\ files' = opened
                              /\ fsret' = Ret("copy", Err("Other", <<>>))
                         [] fail \in {"metadata", "set_permissions"} ->
                              /\ files' = copied
                              /\ fsret' = Ret("copy", Err("Other", <<>>))
                         [] OTHER ->
                              /\ files' = done
                              /\ fsret' = Ret("copy", Ok(Len(src), <<>>))
    /\ UNCHANGED <<cfgVars, ioVars, build, used, pc, cur, CLOSER_POOL,
                   poolInits, queue, released>>

\* The function's scope ends: the next local wrapper is dropped.
ScopeExit(t) ==
    /\ build = "ok"
    /\ pc[t] = "idle"
    /\ todo[t] # <<>>
    /\ wr' = [wr EXCEPT ![Head(todo[t])].st = "dropping"]
    /\ pc' = [pc EXCEPT ![t] = "drop"]
    /\ cur' = [cur EXCEPT ![t] = Head(todo[t])]
    /\ todo' = [todo EXCEPT ![t] = Tail(todo[t])]
    /\ UNCHANGED <<cfgVars, ioVars, build, holders, opener, used, CLOSER_POOL,
                   poolInits, queue, released, files, fsret, fscall, ncalls>>

\* A built crate on either platform and a file system with some files.
InitFs ==
    /\ features \in {{b} : b \in Backends}
    /\ platform \in Platforms
    /\ runtime \in IF "backend-tokio" \in features THEN BOOLEAN ELSE {FALSE}
    /\ H = "File"
    /\ build = "ok"
    /\ holders = [h \in Handles |-> {}]
    /\ opener = [h \in Handles |-> "none"]
    /\ used = [h \in Handles |-> FALSE]
    /\ wr = [h \in Handles |-> NoWrapper]
    /\ pc = [t \in Threads |-> "idle"]
    /\ cur = [t \in Threads |-> 0]
    /\ CLOSER_POOL = "uninit"
    /\ poolInits = 0
    /\ queue = <<>>
    /\ released = [h \in Handles |-> <<>>]
    /\ fc = NoFastClose
    /\ raw = NoH
    /\ resW = NoRes
    /\ resR = NoRes
    /\ dbg = NoDbg
    /\ sizes = NoSizes
    /\ files \in [Paths -> FileStates]
    /\ fsret = NoRet
    /\ fscall = NoCall
    /\ todo = [t \in Threads |-> <<>>]
    /\ ncalls = 0

NextFs ==
    \/ \E t \in Threads, p \in Paths, f \in {"none", "read"} :
         fs_read(t, p, f)
    \/ \E t \in Threads, p \in Paths, f \in {"none", "read"} :
         fs_read_to_string(t, p, f)
    \/ \E t \in Threads, p \in Paths, c \in FsData, f \in {"none", "write"} :
         fs_write(t, p, c, f)
    \/ \E t \in Threads, p, q \in Paths,
          f \in {"none", "copy", "metadata", "set_permissions"} :
         fs_copy(t, p, q, f)
    \/ \E t \in Threads : ScopeExit(t)
    \/ \E t \in Threads : DropStep(t)
    \/ \E i \in 1..NHandles : Worker(i)

SpecFs == InitFs /\ [][NextFs]_vars

\* ==================================================================
\* Properties of the wrapper's life cycle (specification Spec)
\* ==================================================================
Finished(h) == wr[h].st \in {"dropped", "reclaimed", "unwound"}

InQueue(h) == \E i \in 1..Len(queue) : queue[i] = h

RECURSIVE SumBackend(_)
SumBackend(S) ==
    IF S = {} THEN 0
    ELSE LET h == Lowest(S) IN BackendReleases(h) + SumBackend(S \ {h})

\* The number of releases the backend has performed.
BackendEvents == SumBackend(Handles)

Submitted == {h \in Handles : wr[h].subs > 0}

Dropped == {h \in Handles : wr[h].st = "dropped"}

ViaOnly(h, ways) ==
    \A i \in 1..Len(released[h]) : released[h][i].via \in ways

\* C1: over a wrapper's whole life the handle is extracted exactly once,
\* either by Drop (taken) or by into_inner (into), never by both and, once the
\* wrapper is gone, never by neither; the handle's destructor runs at most
\* once and the backend is invoked at most once per wrapper.
C1_ExtractedExactlyOnce ==
    \A h \in Handles :
      /\ wr[h].taken + wr[h].into <= 1
      /\ wr[h].subs <= 1
      /\ Finished(h) => wr[h].taken + wr[h].into = 1
      /\ wr[h].st = "reclaimed" => wr[h].into = 1
      /\ wr[h].st \in {"dropped", "unwound"} => wr[h].taken = 1
      /\ Releases(h) <= 1

\* One wrapper ended by Drop, another by into_inner after a pass-through
\* operation on it.
C1_Witness ==
    \E h1, h2 \in Handles :
        /\ wr[h1].st = "dropped" /\ wr[h1].taken = 1
        /\ wr[h2].st = "reclaimed" /\ wr[h2].into = 1
        /\ used[h2]

\* C2: into_inner hands the very handle back to the caller: the wrapper never
\* submits it and no thread runs Drop on it, the call neither initialises the
\* pool nor queues a task nor runs the destructor, and the handle is released
\* by its own inline destructor only, when the caller drops it.
C2_ReclaimIsIdentity ==
    /\ \A h \in Handles :
         wr[h].into > 0 =>
           /\ wr[h].st = "reclaimed"
           /\ wr[h].taken = 0 /\ wr[h].subs = 0
           /\ \A t \in Threads : cur[t] # h
           /\ ~InQueue(h)
           /\ holders[h] \subseteq {"caller"}
           /\ "caller" \in holders[h] => Releases(h) = 0
           /\ holders[h] = {} => (Releases(h) = 1 /\ ViaOnly(h, {"raw"}))
    /\ (\A h \in Handles : wr[h].st \in {"none", "live", "reclaimed"}) =>
         /\ CLOSER_POOL = "uninit" /\ poolInits = 0
         /\ queue = <<>>
         /\ \A h \in Handles : ViaOnly(h, {"raw"})

\* A reclaimed handle, used through the wrapper before, has been dropped by
\* the caller; nothing was dispatched.
C2_Witness ==
    \E h \in Handles :
        /\ wr[h].st = "reclaimed"
        /\ used[h]
        /\ holders[h] = {}
        /\ released[h] = <<[by |-> 0, via |-> "raw"]>>
        /\ CLOSER_POOL = "uninit" /\ queue = <<>>

\* C3: on Windows the backend releases every submitted handle exactly once:
\* no handle is released twice, submissions are conserved (queued or released
\* by the backend), and once the queue is empty every dropped wrapper's handle
\* has been released by the backend, so N drops give N backend releases.
C3_ExactlyNReleases ==
    platform = "windows" =>
      /\ \A h \in Handles : Releases(h) <= 1
      /\ Cardinality(Submitted) = Len(queue) + BackendEvents
      /\ queue = <<>> =>
           /\ \A h \in Submitted : BackendReleases(h) = 1
           /\ Dropped \subseteq Submitted
           /\ BackendEvents >= Cardinality(Dropped)

\* All threads are inside Drop at the same time, the pool was initialised
\* once, and the backend has released each of their handles.
C3_Witness ==
    /\ "backend-threadpool" \in features
    /\ \A t \in Threads : pc[t] = "glue"
    /\ queue = <<>>
    /\ BackendEvents = NThreads
    /\ poolInits = 1

\* C4: on a non-Windows target nothing is ever dispatched (no pool, no task,
\* whatever the backend feature) and a dropped wrapper's handle is released
\* inline, in the very step that ends the drop and on the dropping thread,
\* as the drop of a raw handle does.
C4_StubInv ==
    platform = "other" =>
      /\ queue = <<>> /\ CLOSER_POOL = "uninit" /\ poolInits = 0
      /\ \A h \in Handles :
           /\ wr[h].subs = 0
           /\ ViaOnly(h, {"raw", "glue"})
           /\ wr[h].st = "dropped" =>
                (Releases(h) = 1 /\ released[h][1].via = "glue")
           /\ wr[h].st = "dropping" => Releases(h) = 0

C4_StubStep ==
    platform = "other" =>
      \A t \in Threads :
        (cur[t] # 0 /\ cur'[t] = 0) =>
          released' = Release(cur[t], t, "glue")

C4_StubDropIsInline == []C4_StubInv /\ [][C4_StubStep]_vars

C4_Witness ==
    /\ platform = "other"
    /\ features # {"backend-threadpool"}
    /\ \A h \in Handles : wr[h].st = "dropped" /\ Releases(h) = 1

\* The only wait inside Drop: another thread is running the OnceLock's init
\* closure (pool construction).
WaitsForPoolInit(t) ==
    /\ "backend-threadpool" \in features
    /\ pc[t] = "drop"
    /\ CLOSER_POOL = "building"

\* C5: on Windows a thread inside Drop can always take its next step,
\* whatever is pending in the backend's queue or already released: Drop does
\* not wait for the release of its handle or of earlier ones (it only waits
\* while another thread constructs the pool), and no step of Drop performs or
\* observes a release.
C5_DropNeverWaits ==
    (build = "ok" /\ platform = "windows") =>
      /\ \A t \in Threads :
           (cur[t] # 0 /\ ~WaitsForPoolInit(t)) => ENABLED DropStep(t)
      /\ \A h \in Handles : ViaOnly(h, {"raw", "backend", "unwind"})

\* Every drop has returned while its handle and an earlier submitted one are
\* still pending.
C5_Witness ==
    /\ platform = "windows"
    /\ Len(queue) = 2
    /\ \A t \in Threads : pc[t] = "idle"
    /\ \E h \in Handles : wr[h].st = "dropped" /\ InQueue(h)

\* C6: under fair scheduling of the backend's workers every handle a wrapper
\* has submitted is eventually released by the backend, and a task leaves the
\* queue only by being run (it is never cancelled or discarded).
C6_Leads ==
    \A h \in Handles : (wr[h].subs > 0) ~> (BackendReleases(h) = 1)

C6_NoCancel ==
    \A h \in Handles :
      (InQueue(h) /\ ~InQueue(h)') =>
        BackendReleases(h)' = BackendReleases(h) + 1

C6_SubmittedIsReleased == C6_Leads /\ [][C6_NoCancel]_vars

C6_Witness ==
    \E h \in Handles :
        /\ wr[h].subs = 1
        /\ BackendReleases(h) = 1
        /\ queue # <<>>

\* C7: wrappers and handles exist only in builds with exactly one backend
\* feature; every other selection ends in the compile error.
C7_ExactlyOneBackend ==
    /\ build = "ok" => Cardinality(features) = 1
    /\ build = "error" => Cardinality(features) # 1
    /\ ((\E h \in Handles : wr[h].st # "none" \/ opener[h] # "none") =>
         (build = "ok" /\ Cardinality(features) = 1))

C7_Witness ==
    /\ \E h \in Handles : wr[h].st = "live"
    /\ Cardinality(features) = 1

\* C16: the worker pool does not exist before a wrapper is dropped, is built
\* by a thread inside Drop, is built at most once however the first drops
\* race, every submission goes to the built pool, and the pool, once built,
\* stays for the rest of the run; without the worker-pool backend or off
\* Windows there is no pool at all.
C16_Inv ==
    /\ poolInits <= 1
    /\ CLOSER_POOL = "ready" <=> poolInits = 1
    /\ (\A h \in Handles : wr[h].st \in {"none", "live", "reclaimed"}) =>
         CLOSER_POOL = "uninit"
    /\ ("backend-threadpool" \notin features \/ platform # "windows") =>
         CLOSER_POOL = "uninit"
    /\ "backend-threadpool" \in features =>
         \A h \in Handles : wr[h].subs > 0 => CLOSER_POOL = "ready"
    /\ CLOSER_POOL = "building" =>
         Cardinality({t \in Threads : pc[t] = "build"}) = 1
    /\ CLOSER_POOL # "building" => \A t \in Threads : pc[t] # "build"

C16_Step ==
    /\ CLOSER_POOL = "ready" => CLOSER_POOL' = "ready"
    /\ CLOSER_POOL = "building" => CLOSER_POOL' \in {"building", "ready"}
    /\ poolInits' >= poolInits
    /\ CLOSER_POOL' # CLOSER_POOL =>
         \E t \in Threads :
            /\ cur[t] # 0 /\ wr[cur[t]].st = "dropping"
            /\ pc[t] \in {"drop", "build"} /\ pc'[t] # pc[t]
    /\ ("backend-threadpool" \in features /\ Len(queue') > Len(queue)) =>
         (CLOSER_POOL = "ready" /\ CLOSER_POOL' = "ready")

C16_PoolIsLazyOnceForever == []C16_Inv /\ [][C16_Step]_vars

\* Every handle was wrapped, dropped and submitted, and the pool was built
\* once; the backend has not released all of them yet.
C16_Witness ==
    /\ "backend-threadpool" \in features
    /\ CLOSER_POOL = "ready" /\ poolInits = 1
    /\ \A h \in Handles : wr[h].st = "dropped" /\ wr[h].subs = 1
    /\ \A t \in Threads : pc[t] = "idle"
    /\ queue # <<>>

\* C9 (as stated): no wrapper is ever produced from an existing wrapper.
C9_NoDuplication ==
    \A h \in Handles : wr[h].origin # "clone"

\* ==================================================================
\* Properties of the pass-through implementations (specification SpecIO)
\* ==================================================================
\* C10: after every sequence of read, write, flush, seek and comparison
\* operations the wrapper's inner handle is in the state of a raw handle that
\* received the same operations, and the last operation returned the same
\* result on both, the same error included.
C10_PassThroughEquivalence ==
    /\ fc.inner = raw
    /\ resW = resR
    /\ DOMAIN fc = {"inner"}

\* The inner handle failed after earlier operations moved it: the wrapper
\* returned the handle's error.
C10_Witness ==
    /\ ~resW.ok
    /\ resW.err = "Other"
    /\ fc.inner.pos > 0
    /\ Len(fc.inner.data) = MaxLen

\* ==================================================================
\* Properties of the Debug output and the layout (specification SpecRepr)
\* ==================================================================
\* The tokens that are neither line breaks, indentation nor spaces.
RECURSIVE Strip(_)
Strip(toks) ==
    IF toks = <<>> THEN <<>>
    ELSE (IF Head(toks) \in {Newline, Indent, " "} THEN <<>>
          ELSE <<Head(toks)>>) \o Strip(Tail(toks))

IsInfix(a, b) ==
    \E i \in 0..(Len(b) - Len(a)) : SubSeq(b, i + 1, i + Len(a)) = a

Mentions(toks, word) == \E i \in 1..Len(toks) : toks[i] = word

\* C14: the wrapper's Debug output, plain or pretty, on either platform,
\* never mentions ManuallyDrop, names the inner handle's type, and contains
\* the inner handle's own Debug output of the same form: token for token in
\* the plain form, and up to the indentation of the nesting in the pretty
\* form.
C14_DebugHidesManuallyDrop ==
    dbg.wrapper # <<>> =>
      /\ ~Mentions(dbg.wrapper, "ManuallyDrop")
      /\ Mentions(dbg.wrapper, H)
      /\ Head(dbg.wrapper) = "FastClose"
      /\ dbg.inner # <<>>
      /\ IsInfix(Strip(dbg.inner), Strip(dbg.wrapper))
      /\ ~dbg.pretty => IsInfix(dbg.inner, dbg.wrapper)

\* The pretty form of a Windows wrapper, printed after the handle was used.
C14_Witness ==
    /\ platform = "windows"
    /\ dbg.pretty
    /\ Mentions(dbg.wrapper, Indent)
    /\ Len(dbg.wrapper) > Len(dbg.inner)
    /\ Len(fc.inner.data) > 0

\* C15: for a handle type of any size, the measured size of the wrapper is
\* the size of the handle type, on both platforms.
C15_SameSize ==
    sizes.measured => sizes.FastClose = sizes.H

\* The size of a Windows wrapper around a handle type that is not zero-sized
\* was measured.
C15_Witness ==
    /\ sizes.measured
    /\ platform = "windows"
    /\ sizes.H = MaxSize
    /\ sizes.FastClose = MaxSize

\* ==================================================================
\* Properties of the fs functions (specification SpecFs)
\* ==================================================================
\* C11: after a successful fs::copy(from, to) of a non-empty file to a path
\* that did not exist, the returned byte count is the length of `to`, `to`
\* holds the bytes of `from`, and the permission bits of `to` are those of
\* `from`.
C11_CopyCountAndPermissions ==
    (/\ fsret.fn = "copy" /\ fsret.ok
     /\ ~fscall.existed
     /\ files[fscall.path].data # <<>>) =>
        /\ files[fscall.to].exists
        /\ fsret.n = Len(files[fscall.to].data)
        /\ files[fscall.to].data = files[fscall.path].data
        /\ files[fscall.to].perm = files[fscall.path].perm

\* A read-only file of two bytes was copied to a new path.
C11_Witness ==
    /\ fsret.fn = "copy" /\ fsret.ok /\ fsret.n = 2
    /\ ~fscall.existed
    /\ files[fscall.path].perm = "ro"
    /\ files[fscall.to].perm = "ro"
    /\ Len(files[fscall.to].data) = 2

\* C12: a successful fs::write(p, data) leaves exactly data in the file at p,
\* whatever p held before, and an fs::read(p) that follows it succeeds unless
\* the operating system fails the read, and returns exactly data.
C12_WriteInv ==
    (fsret.fn = "write" /\ fsret.ok) =>
        /\ files[fscall.path].exists
        /\ files[fscall.path].data = fscall.contents

C12_ReadStep ==
    (/\ fsret.fn = "write" /\ fsret.ok
     /\ ncalls' = ncalls + 1
     /\ fsret'.fn = "read"
     /\ fscall'.path = fscall.path) =>
        /\ fscall'.fail = "none" => fsret'.ok
        /\ fsret'.ok => fsret'.val = fscall.contents

C12_WriteReadRoundTrip == []C12_WriteInv /\ [][C12_ReadStep]_vars

\* The only file there is was written with two bytes by the first call and
\* read back by the second.
C12_Witness ==
    /\ opener = [h \in Handles |-> IF h = 1 THEN "write"
                                   ELSE IF h = 2 THEN "read" ELSE "none"]
    /\ ncalls = 2
    /\ fsret.fn = "read" /\ fsret.ok
    /\ fsret.val = <<0, 1>>
    /\ \A q \in Paths \ {fscall.path} : ~files[q].exists

\* C13: fs::read_to_string on an existing file whose bytes are not valid text
\* returns an error and no text, the decoding error unless the operating
\* system failed the read first; the call returns to its caller (the calling
\* thread neither panics nor is left inside a drop), and every handle the
\* function opened has been released, exactly once, when it returns.
C13_Inv ==
    /\ (/\ fsret.fn = "read_to_string"
        /\ fscall.existed
        /\ ~IsUtf8(files[fscall.path].data)) =>
           /\ ~fsret.ok
           /\ fsret.val = <<>>
           /\ fsret.err \in {"InvalidData", "Other"}
           /\ fscall.fail = "none" => fsret.err = "InvalidData"
    /\ \A h \in Handles :
         opener[h] = "read_to_string" =>
           (holders[h] = {} /\ Releases(h) = 1)

C13_Step ==
    (ncalls' = ncalls + 1 /\ fsret'.fn = "read_to_string") =>
        (pc' = pc /\ cur' = cur /\ todo' = todo)

C13_InvalidTextIsAnError == []C13_Inv /\ [][C13_Step]_vars

\* The file held bytes that are not valid text: the call returned the
\* decoding error and its handle is released.
C13_Witness ==
    /\ fsret.fn = "read_to_string"
    /\ ~fsret.ok /\ fsret.err = "InvalidData"
    /\ files[fscall.path].data = <<0, 1>>
    /\ \E h \in Handles :
         opener[h] = "read_to_string" /\ Releases(h) = 1

\* C17: fs::copy opens `from`, opens (creates, truncates) `to`, streams the
\* bytes and then sets the permissions of `to`; the first step that fails
\* ends the call with its error and no later step has an effect: a missing
\* `from` or an unwritable `to` leaves every file as it was, a failure while
\* streaming or later leaves the permissions of `to` as they were when it was
\* opened, the permissions of `to` change only in a call that succeeds, and a
\* failure of the permission step returns the error although `to` holds
\* every byte of `from`.
C17_Step ==
    (ncalls' = ncalls + 1 /\ fsret'.fn = "copy") =>
      LET from == fscall'.path
          to == fscall'.to
          fail == fscall'.fail
          writable == ~files[to].exists \/ files[to].perm = "rw"
          permAtOpen == IF files[to].exists THEN files[to].perm ELSE "rw"
          src == IF from = to THEN <<>> ELSE files[from].data
      IN
        /\ ~files[from].exists =>
              /\ ~fsret'.ok /\ fsret'.err = "NotFound"
              /\ files' = files
        /\ (files[from].exists /\ ~writable) =>
              /\ ~fsret'.ok /\ fsret'.err = "PermissionDenied"
              /\ files' = files
        /\ (files[from].exists /\ writable) =>
              /\ files'[to].exists
              /\ fsret'.ok <=> fail = "none"
              /\ ~fsret'.ok =>
                    /\ fsret'.err = "Other"
                    /\ files'[to].perm = permAtOpen
              /\ fail \in {"metadata", "set_permissions"} =>
                    files'[to].data = src
              /\ fsret'.ok =>
                    /\ files'[to].data = src
                    /\ fsret'.n = Len(src)
                    /\ files'[to].perm = files[from].perm
        /\ \A q \in Paths :
              (files[q].exists /\ files'[q].perm # files[q].perm) =>
                (q = to /\ fsret'.ok)

C17_CopyStepsInOrder == [][C17_Step]_vars

\* Setting the permissions failed: copy returned the error, the new file
\* holds the two bytes of the read-only source and is still read-write.
C17_Witness ==
    /\ fsret.fn = "copy"
    /\ ~fsret.ok /\ fsret.err = "Other"
    /\ fscall.fail = "set_permissions"
    /\ ~fscall.existed
    /\ files[fscall.path].perm = "ro"
    /\ files[fscall.to].perm = "rw"
    /\ files[fscall.to].data = files[fscall.path].data
    /\ Len(files[fscall.to].data) = 2

\* C8 (as stated): no handle opened by fs::copy, fs::read, fs::read_to_string
\* or fs::write is released by the raw handle's inline destructor.
C8_FsHandlesAreWrapped ==
    \A h \in Handles :
      opener[h] \in FsFunctions =>
        \A i \in 1..Len(released[h]) : released[h][i].via # "raw"

====
